---- MODULE Spec2Model ----
(***************************************************************************)
(* A model of lib/components/contract.py: the ABI index (_ContractBase),   *)
(* the ContractDeployer registry, the Contract instance with its bound     *)
(* ContractTx / ContractCall methods, and the argument formatter           *)
(* _format_inputs.                                                         *)
(*                                                                         *)
(* Python values are records tagged by their runtime type in field k:      *)
(*   [k |-> "int", v |-> 7]          an int                                *)
(*   [k |-> "str", v |-> <<"h","i">>] a str, as its sequence of characters *)
(*   [k |-> "bytes", v |-> <<0, 1>>]  a bytes object, as its byte values   *)
(*   [k |-> "list", v |-> <<...>>]    a list of Python values              *)
(*   [k |-> "none"]                   None                                 *)
(* A raised exception is a record [k |-> "err", exc |-> ..., site |-> ...].*)
(* ABI type strings and names are sequences of one-character strings, so   *)
(* that the slicing, stripping and splitting of the source is computed.    *)
(*                                                                         *)
(* Line 160-161 of the source read "try:" followed by "elif"; the model    *)
(* reads the chain of lines 161-167 as the if/elif chain it spells.        *)
(***************************************************************************)
EXTENDS Integers, Sequences, FiniteSets, TLC

VARIABLES
    abi,        \* ContractDeployer.abi: the ABI entry list of the interface
    phase,      \* "new" before ContractDeployer.__init__, then "ready" or "failed"
    signatures, \* _ContractBase.signatures (name -> selector), None until built
    topics,     \* _ContractBase.topics (name -> topic), None until built
    deployed,   \* ContractDeployer._deployed: OrderedDict as a sequence of [key, obj]
    objs,       \* the Contract objects created so far, by identity (index)
    nSent,      \* how many calls accounts' _contract_tx have received
    lastSent,   \* the last call an account's _contract_tx received, with its outcome
    inst,       \* the Contract instance whose bound methods are called
    fmtIn,      \* _format_inputs: the inputs argument
    fmtTypes,   \* _format_inputs: the types argument
    op,         \* the operation last invoked, with its arguments
    ret         \* what that operation returned or raised

vars == <<abi, phase, signatures, topics, deployed, objs, nSent, lastSent, inst,
          fmtIn, fmtTypes, op, ret>>

----------------------------------------------------------------------------
(* Bounds of the model *)

\* number of distinct on-chain addresses
NumAddr == 2
\* number of _contract_tx submissions followed in one behaviour
MaxSent == 2
\* longest ABI entry list given to _ContractBase.__init__
MaxAbi == 3
\* longest inputs / types list given to _format_inputs
MaxArgs == 2

----------------------------------------------------------------------------
(* Python values *)

None == [k |-> "none"]
PyInt(n) == [k |-> "int", v |-> n]
PyStr(s) == [k |-> "str", v |-> s]
PyBytes(b) == [k |-> "bytes", v |-> b]
PyList(l) == [k |-> "list", v |-> l]
IsErr(x) == x.k = "err"

\* ord() of the characters the model's strings are made of
Ord(c) ==
    CASE c = "0" -> 48 [] c = "1" -> 49 [] c = "2" -> 50 [] c = "3" -> 51
      [] c = "4" -> 52 [] c = "5" -> 53 [] c = "6" -> 54 [] c = "7" -> 55
      [] c = "8" -> 56 [] c = "9" -> 57 [] c = "a" -> 97 [] c = "b" -> 98
      [] c = "h" -> 104 [] c = "i" -> 105 [] c = "x" -> 120

Digits == {"0", "1", "2", "3", "4", "5", "6", "7", "8", "9"}
DigitCodes == 48 .. 57

RECURSIVE Pow(_, _)
Pow(b, e) == IF e = 0 THEN 1 ELSE b * Pow(b, e - 1)

\* int(s) of a sequence of decimal digit values, most significant first
RECURSIVE DigitsValue(_)
DigitsValue(ds) ==
    IF ds = <<>> THEN 0
    ELSE 10 * DigitsValue(SubSeq(ds, 1, Len(ds) - 1)) + ds[Len(ds)]

\* int(x): [ok, v]. An int is itself; a str or bytes is parsed as a decimal
\* literal (int("") and non-digits raise ValueError); None and a list raise
\* TypeError.
IntOf(x) ==
    CASE x.k = "int" -> [ok |-> TRUE, v |-> x.v]
      [] x.k = "str" ->
            IF x.v # <<>> /\ \A j \in DOMAIN x.v : x.v[j] \in Digits
            THEN [ok |-> TRUE, v |-> DigitsValue([j \in DOMAIN x.v |-> Ord(x.v[j]) - 48])]
            ELSE [ok |-> FALSE, v |-> 0]
      [] x.k = "bytes" ->
            IF x.v # <<>> /\ \A j \in DOMAIN x.v : x.v[j] \in DigitCodes
            THEN [ok |-> TRUE, v |-> DigitsValue([j \in DOMAIN x.v |-> x.v[j] - 48])]
            ELSE [ok |-> FALSE, v |-> 0]
      [] OTHER -> [ok |-> FALSE, v |-> 0]

\* to_bytes with the byte order reversed ("little")
ToBytesLittle(n, length) ==
    IF n < 0 \/ n >= Pow(256, length) THEN [ok |-> FALSE, v |-> <<>>]
    ELSE [ok |-> TRUE,
          v |-> [j \in 1 .. length |-> (n \div Pow(256, j - 1)) % 256]]

\* n.to_bytes(length, "big"): OverflowError for a negative n or one too big
ToBytesBig(n, length) ==
    IF n < 0 \/ n >= Pow(256, length) THEN [ok |-> FALSE, v |-> <<>>]
    ELSE [ok |-> TRUE,
          v |-> [j \in 1 .. length |-> (n \div Pow(256, length - j)) % 256]]

\* s.encode(): the UTF-8 bytes of a str (one byte per ASCII character)
Encode(s) == [j \in DOMAIN s |-> Ord(s[j])]

\* len(x): defined for list, str and bytes; TypeError otherwise
HasLen(x) == x.k \in {"list", "str", "bytes"}

\* list(x) of a list, str or bytes, as a sequence of Python values
ListOf(x) ==
    CASE x.k = "list" -> x.v
      [] x.k = "str" -> [j \in DOMAIN x.v |-> PyStr(<<x.v[j]>>)]
      [] x.k = "bytes" -> [j \in DOMAIN x.v |-> PyInt(x.v[j])]

----------------------------------------------------------------------------
(* str operations on ABI type strings *)

\* sub in s
Contains(s, sub) ==
    \E j \in 1 .. (Len(s) - Len(sub) + 1) : SubSeq(s, j, j + Len(sub) - 1) = sub

\* s.rstrip(c)
RECURSIVE RStrip(_, _)
RStrip(s, c) ==
    IF s # <<>> /\ s[Len(s)] = c THEN RStrip(SubSeq(s, 1, Len(s) - 1), c) ELSE s

\* s.split(c)
RECURSIVE Split(_, _)
Split(s, c) ==
    IF \A j \in DOMAIN s : s[j] # c THEN <<s>>
    ELSE LET p == CHOOSE j \in DOMAIN s :
                      s[j] = c /\ \A m \in 1 .. (j - 1) : s[m] # c
         IN <<SubSeq(s, 1, p - 1)>> \o Split(SubSeq(s, p + 1, Len(s)), c)

\* ",".join(parts)
RECURSIVE JoinComma(_)
JoinComma(parts) ==
    IF parts = <<>> THEN <<>>
    ELSE IF Len(parts) = 1 THEN parts[1]
    ELSE parts[1] \o <<",">> \o JoinComma(Tail(parts))

----------------------------------------------------------------------------
(* _format_inputs, lines 145-172 *)

INT == <<"i", "n", "t">>
BYTES == <<"b", "y", "t", "e", "s">>

\* the AttributeError of line 148: the message names the function and
\* ",".join(types)
CountError(name, types) ==
    [k |-> "err", exc |-> "AttributeError", site |-> "count",
     name |-> name, expected |-> JoinComma(types)]

\* the ValueError of line 155; i is the 0-based index enumerate() gives
LengthError(name, i, x, type_) ==
    [k |-> "err", exc |-> "ValueError", site |-> "length",
     name |-> name, arg |-> i, have |-> Len(x.v), want |-> type_]

\* the ValueError of line 169
ConvertError(name, i, x, type_) ==
    [k |-> "err", exc |-> "ValueError", site |-> "convert",
     name |-> name, arg |-> i, vtype |-> x.k, value |-> x, want |-> type_]

\* exceptions Python itself raises outside the try block of line 160
UnpackError == [k |-> "err", exc |-> "ValueError", site |-> "unpack"]
LenTypeError == [k |-> "err", exc |-> "TypeError", site |-> "len"]
IntLengthError == [k |-> "err", exc |-> "ValueError", site |-> "int(length)"]
IndexError == [k |-> "err", exc |-> "IndexError", site |-> "type_[-1]"]

\* type_.rstrip(']').split('[') of line 153
ArrayParts(type_) == Split(RStrip(type_, "]"), "[")

\* inputs[i][:2]
Prefix2(s) == SubSeq(s, 1, IF Len(s) < 2 THEN Len(s) ELSE 2)

\* int(inputs[i]).to_bytes(int(type_[5:]), "big") of line 165; any exception
\* is caught by the bare except of line 168
IntToBytes(name, i, x, type_) ==
    LET n == IntOf(x)
        size == IntOf(PyStr(SubSeq(type_, 6, Len(type_))))
    IN IF ~n.ok \/ ~size.ok THEN ConvertError(name, i, x, type_)
       ELSE IF ~ToBytesBig(n.v, size.v).ok THEN ConvertError(name, i, x, type_)
       ELSE PyBytes(ToBytesBig(n.v, size.v).v)

\* lines 160-171: the conversion of one scalar argument
FormatScalar(name, i, x, type_) ==
    IF Contains(type_, INT)
    THEN IF IntOf(x).ok THEN PyInt(IntOf(x).v) ELSE ConvertError(name, i, x, type_)
    ELSE IF Contains(type_, BYTES) /\ x.k # "bytes"
    THEN IF x.k # "str" THEN IntToBytes(name, i, x, type_)
         ELSE IF Prefix2(x.v) # <<"0", "x">> THEN PyBytes(Encode(x.v))
         ELSE x
    ELSE x

RECURSIVE format_inputs(_, _, _)
RECURSIVE FormatLoop(_, _, _, _)

\* lines 152-159: an argument of array type, at 1-based position p
FormatArray(name, inputs, types, p) ==
    LET type_ == types[p]
        x == inputs[p]
        parts == ArrayParts(type_)
    IN IF Len(parts) # 2 THEN UnpackError
       ELSE LET t == parts[1]
                length == parts[2]
            IN IF ~HasLen(x) THEN LenTypeError
               ELSE IF length # <<>> /\ ~IntOf(PyStr(length)).ok THEN IntLengthError
               ELSE IF length # <<>> /\ Len(x.v) # IntOf(PyStr(length)).v
                    THEN LengthError(name, p - 1, x, type_)
               ELSE LET r == format_inputs(name, ListOf(x), [j \in 1 .. Len(x.v) |-> t])
                    IN IF IsErr(r) THEN r
                       ELSE FormatLoop(name, [inputs EXCEPT ![p] = r], types, p + 1)

\* lines 151-172: the loop over enumerate(types), from 1-based position p on
FormatLoop(name, inputs, types, p) ==
    IF p > Len(types) THEN PyList(inputs)
    ELSE IF types[p] = <<>> THEN IndexError
    ELSE IF types[p][Len(types[p])] = "]" THEN FormatArray(name, inputs, types, p)
    ELSE LET r == FormatScalar(name, p - 1, inputs[p], types[p])
         IN IF IsErr(r) THEN r
            ELSE FormatLoop(name, [inputs EXCEPT ![p] = r], types, p + 1)

\* _format_inputs rejecting only too few inputs (< for != in line 147)
format_inputs_fewer(name, inputs, types) ==
    IF Len(inputs) < Len(types) THEN CountError(name, types)
    ELSE FormatLoop(name, inputs, types, 1)

\* _format_inputs(name, inputs, types), inputs being list(inputs) of line 146
format_inputs(name, inputs, types) ==
    IF Len(inputs) # Len(types) THEN CountError(name, types)
    ELSE FormatLoop(name, inputs, types, 1)

----------------------------------------------------------------------------
(* The formatter alone: Init draws the arguments, Format applies it *)

UINT8 == <<"u", "i", "n", "t", "8">>
BYTES1 == BYTES \o <<"1">>
BYTES2 == BYTES \o <<"2">>
BOOL == <<"b", "o", "o", "l">>
Dyn(t) == t \o <<"[", "]">>
Fixed2(t) == t \o <<"[", "2", "]">>

ScalarTypes == {UINT8, BYTES1, BYTES2, BYTES, BOOL}
FmtTypes == ScalarTypes \cup {Dyn(UINT8), Fixed2(UINT8), Fixed2(BYTES2), Fixed2(Fixed2(UINT8))}

S7 == PyStr(<<"7">>)
SHi == PyStr(<<"h", "i">>)
SHex == PyStr(<<"0", "x", "a", "b">>)
BHi == PyBytes(<<104, 105>>)
L2 == PyList(<<PyInt(1), S7>>)
LL == PyList(<<L2, PyList(<<PyInt(300), PyInt(1)>>)>>)
FmtValues == {PyInt(1), PyInt(300), S7, SHi, SHex, BHi, L2, LL}

SeqsUpTo(S, n) == UNION {[1 .. m -> S] : m \in 0 .. n}

FName == <<"f">>

InitF ==
    /\ fmtIn \in SeqsUpTo(FmtValues, MaxArgs)
    /\ fmtTypes \in SeqsUpTo(FmtTypes, MaxArgs)
    /\ op = [name |-> "init"]
    /\ ret = None
    /\ abi = <<>> /\ phase = "none" /\ signatures = None /\ topics = None
    /\ deployed = <<>> /\ objs = <<>> /\ nSent = 0 /\ lastSent = None
    /\ inst = None

Format ==
    /\ op.name = "init"
    /\ op' = [name |-> "format"]
    /\ ret' = format_inputs(FName, fmtIn, fmtTypes)
    /\ UNCHANGED <<abi, phase, signatures, topics, deployed, objs, nSent,
                   lastSent, inst, fmtIn, fmtTypes>>

NextF == Format

SpecFormat == InitF /\ [][NextF]_vars

----------------------------------------------------------------------------
(* ABI entries and the collaborators (web3, accounts) *)

Param(n, t) == [name |-> n, type |-> t]

Function(n, ins, mut) ==
    [type |-> "function", name |-> n, inputs |-> ins, stateMutability |-> mut]
Event(n, ins) == [type |-> "event", name |-> n, inputs |-> ins]
Constructor(ins) == [type |-> "constructor", inputs |-> ins]

FnGet == Function(<<"g">>, <<>>, "view")
FnSet == Function(<<"s">>, <<Param(<<"x">>, UINT8)>>, "nonpayable")
FnSetBytes == Function(<<"s">>, <<Param(<<"x">>, BYTES2)>>, "payable")
EvSet == Event(<<"s">>, <<Param(<<"x">>, UINT8)>>)
\* a constructor entry that carries a name, the name of function s
CtorUint == [type |-> "constructor", name |-> <<"s">>,
             inputs |-> <<Param(<<"x">>, UINT8)>>]

AbiEntries == {FnGet, FnSet, FnSetBytes, EvSet, CtorUint}

\* web3.sha3(text = ...).hex(): an uninterpreted hash of the text
Sha3Hex(text) == [sha3 |-> text]
\* h[:10]: "0x" and the first four bytes of the hash
First10(h) == [first4 |-> h.sha3]

\* "{}({})".format(i['name'], ",".join(x['type'] for x in i['inputs']))
Canonical(entry) ==
    entry.name \o <<"(">>
      \o JoinComma([j \in DOMAIN entry.inputs |-> entry.inputs[j].type])
      \o <<")">>

\* web3.toChecksumAddress: an address is [id, form]; the form is the
\* letter-casing of its hex digits
AddrForms == {"checksum", "lower"}
Addresses == [id : 1 .. NumAddr, form : AddrForms]
toChecksumAddress(address) == [id |-> address.id, form |-> "checksum"]

Acct(n) == [k |-> "account", name |-> n]
Accounts == {Acct("a1"), Acct("a2")}

----------------------------------------------------------------------------
(* _ContractBase.__init__, lines 10-29 *)

\* the names of all entries, the filter on the type left out
EntryNames(entries) == [j \in DOMAIN entries |-> entries[j].name]

\* line 12: names = [i['name'] for i in abi if i['type']=="function"]
RECURSIVE FunctionNames(_)
FunctionNames(entries) ==
    IF entries = <<>> THEN <<>>
    ELSE (IF Head(entries).type = "function" THEN <<Head(entries).name>> ELSE <<>>)
            \o FunctionNames(Tail(entries))

\* names.count(n)
Count(names, n) == Cardinality({j \in DOMAIN names : names[j] = n})

\* line 13: duplicates = set(i for i in names if names.count(i)>1)
Duplicates(names) == {names[j] : j \in {m \in DOMAIN names : Count(names, names[m]) > 1}}

\* the index of the last entry of a type that carries name n: in a dict
\* built from the entries in order, a later entry overwrites an earlier one
LastIndex(entries, type, n) ==
    CHOOSE j \in DOMAIN entries :
        /\ entries[j].type = type /\ entries[j].name = n
        /\ \A m \in DOMAIN entries :
              (entries[m].type = type /\ entries[m].name = n) => m <= j

EntryNamesOfType(entries, type) ==
    {entries[j].name : j \in {m \in DOMAIN entries : entries[m].type = type}}

\* lines 18-23: self.topics
Topics(entries) ==
    [k |-> "dict",
     v |-> [n \in EntryNamesOfType(entries, "event") |->
              Sha3Hex(Canonical(entries[LastIndex(entries, "event", n)]))]]

\* lines 24-29: self.signatures
Signatures(entries) ==
    [k |-> "dict",
     v |-> [n \in EntryNamesOfType(entries, "function") |->
              First10(Sha3Hex(Canonical(entries[LastIndex(entries, "function", n)])))]]

AmbiguousError(name, dups) ==
    [k |-> "err", exc |-> "ValueError", site |-> "ambiguous",
     name |-> name, duplicates |-> dups]

ContractName == <<"T">>

\* ContractDeployer.__init__ (lines 36-40) running _ContractBase.__init__
\* (lines 10-29) on the interface's ABI
ContractDeployerInit ==
    /\ phase = "new"
    /\ op' = [name |-> "__init__"]
    /\ IF Duplicates(FunctionNames(abi)) # {}
       THEN /\ phase' = "failed"
            /\ ret' = AmbiguousError(ContractName, Duplicates(FunctionNames(abi)))
            /\ UNCHANGED <<signatures, topics>>
       ELSE /\ phase' = "ready"
            /\ ret' = None
            /\ topics' = Topics(abi)
            /\ signatures' = Signatures(abi)
    /\ UNCHANGED <<abi, deployed, objs, nSent, lastSent, inst, fmtIn, fmtTypes>>

\* The ABI index alone: Init draws the ABI, the constructor builds the index
InitIndex ==
    /\ abi \in SeqsUpTo(AbiEntries, MaxAbi)
    /\ phase = "new"
    /\ signatures = None /\ topics = None
    /\ deployed = <<>> /\ objs = <<>> /\ nSent = 0 /\ lastSent = None
    /\ inst = None
    /\ fmtIn = <<>> /\ fmtTypes = <<>>
    /\ op = [name |-> "init"]
    /\ ret = None

NextIndex == ContractDeployerInit

SpecIndex == InitIndex /\ [][NextIndex]_vars

----------------------------------------------------------------------------
(* Contract, lines 74-100, and the method objects, lines 102-121 *)

\* lines 82-87: one bound method per function entry, a ContractCall for a
\* view or pure function and a ContractTx otherwise, each holding the owner
BoundMethods(entries, owner) ==
    [n \in EntryNamesOfType(entries, "function") |->
        LET i == entries[LastIndex(entries, "function", n)]
        IN [class |-> IF i.stateMutability \in {"view", "pure"}
                      THEN "ContractCall" ELSE "ContractTx",
            abi |-> i,
            _owner |-> owner]]

\* Contract(address, name, abi, owner), lines 76-88; tx is set by deploy only
Contract(address, name, entries, owner) ==
    [address |-> address, _name |-> name, owner |-> owner, tx |-> None,
     methods |-> BoundMethods(entries, owner)]

----------------------------------------------------------------------------
(* ContractDeployer, lines 34-71 *)

\* address in self._deployed
Registered(key) == \E j \in DOMAIN deployed : deployed[j].key = key

\* self._deployed[key]
Lookup(key) == deployed[CHOOSE j \in DOMAIN deployed : deployed[j].key = key].obj

\* at() looking the address up as given, not in its checksummed form
at_unnormalized(address, owner) ==
    IF Registered(address)
    THEN [deployed |-> deployed, objs |-> objs, ret |-> Lookup(address)]
    ELSE [deployed |-> Append(deployed, [key |-> address, obj |-> Len(objs) + 1]),
          objs |-> Append(objs, Contract(address, ContractName, abi, owner)),
          ret |-> Len(objs) + 1]

\* at() moving a registered address to the end of the OrderedDict
at_move_to_end(address, owner) ==
    LET key == toChecksumAddress(address)
        others == SelectSeq(deployed, LAMBDA e : e.key # key)
    IN IF Registered(key)
       THEN [deployed |-> Append(others, [key |-> key, obj |-> Lookup(key)]),
             objs |-> objs, ret |-> Lookup(key)]
       ELSE [deployed |-> Append(deployed, [key |-> key, obj |-> Len(objs) + 1]),
             objs |-> Append(objs, Contract(key, ContractName, abi, owner)),
             ret |-> Len(objs) + 1]

\* at(address, owner), lines 66-71: the registry, the objects and the
\* returned object after the call
at(address, owner) ==
    LET key == toChecksumAddress(address)
    IN IF Registered(key)
       THEN [deployed |-> deployed, objs |-> objs, ret |-> Lookup(key)]
       ELSE [deployed |-> Append(deployed, [key |-> key, obj |-> Len(objs) + 1]),
             objs |-> Append(objs, Contract(key, ContractName, abi, owner)),
             ret |-> Len(objs) + 1]

ObjRef(i) == [k |-> "Contract", id |-> i]

At(address, owner) ==
    /\ phase = "ready"
    /\ op' = [name |-> "at", address |-> address, owner |-> owner]
    /\ deployed' = at(address, owner).deployed
    /\ objs' = at(address, owner).objs
    /\ ret' = ObjRef(at(address, owner).ret)
    /\ UNCHANGED <<abi, phase, signatures, topics, nSent, lastSent, inst,
                   fmtIn, fmtTypes>>

\* next(i for i in self.abi if i['type']=="constructor"), line 59: the first
\* constructor entry; StopIteration when there is none
HasConstructor(entries) == \E j \in DOMAIN entries : entries[j].type = "constructor"
FirstConstructor(entries) ==
    entries[CHOOSE j \in DOMAIN entries :
                entries[j].type = "constructor"
                /\ \A m \in 1 .. (j - 1) : entries[m].type # "constructor"]
StopIteration == [k |-> "err", exc |-> "StopIteration", site |-> "next"]

\* an exception raised by account._contract_tx (a reverted transaction, an
\* RPC failure); it propagates unchanged
TxFailed == [k |-> "err", exc |-> "collaborator", site |-> "_contract_tx"]

Receipt(n, contractAddress) ==
    [k |-> "receipt", nonce |-> n, contractAddress |-> contractAddress]

\* what account._contract_tx may answer to a constructor call
DeployOutcomes == {TxFailed} \cup {Receipt(nSent + 1, a) : a \in Addresses}

CtorFn == <<"c", "o", "n", "s", "t", "r", "u", "c", "t", "o", "r">>

SentCall(account, fn, args, tx, result) ==
    [account |-> account, fn |-> fn, args |-> args, tx |-> tx, result |-> result]

EmptyDict == [k |-> "dict", v |-> <<>>]

\* lines 62-64 with the owner argument of at() left out
RegisterWithoutOwner(tx, account) ==
    LET r == at(tx.contractAddress, None)
    IN [deployed |-> r.deployed, objs |-> [r.objs EXCEPT ![r.ret].tx = tx], ret |-> r.ret]

\* lines 62-64: deployed = self.at(tx.contractAddress, account);
\* deployed.tx = tx; return deployed
RegisterDeployed(tx, account) ==
    LET r == at(tx.contractAddress, account)
    IN [deployed |-> r.deployed, objs |-> [r.objs EXCEPT ![r.ret].tx = tx], ret |-> r.ret]

\* deploy(account, *args), lines 57-64
Deploy(account, args) ==
    /\ phase = "ready"
    /\ nSent < MaxSent
    /\ op' = [name |-> "deploy", account |-> account, args |-> args]
    /\ IF ~HasConstructor(abi)
       THEN /\ ret' = StopIteration
            /\ UNCHANGED <<deployed, objs, nSent, lastSent>>
       ELSE LET ctor == FirstConstructor(abi)
                types == [j \in DOMAIN ctor.inputs |-> ctor.inputs[j].type]
                formatted == format_inputs(CtorFn, args, types)
            IN IF IsErr(formatted)
               THEN /\ ret' = formatted
                    /\ UNCHANGED <<deployed, objs, nSent, lastSent>>
               ELSE \E tx \in DeployOutcomes :
                      /\ nSent' = nSent + 1
                      /\ lastSent' = SentCall(account, CtorFn, formatted, EmptyDict, tx)
                      /\ IF IsErr(tx)
                         THEN /\ ret' = tx
                              /\ UNCHANGED <<deployed, objs>>
                         ELSE LET r == RegisterDeployed(tx, account)
                              IN /\ deployed' = r.deployed
                                 /\ objs' = r.objs
                                 /\ ret' = ObjRef(r.ret)
    /\ UNCHANGED <<abi, phase, signatures, topics, inst, fmtIn, fmtTypes>>

ReadOnly == UNCHANGED <<abi, phase, signatures, topics, deployed, objs, nSent,
                        lastSent, inst, fmtIn, fmtTypes>>

\* list(), lines 54-55: the keys of the OrderedDict
List ==
    /\ phase = "ready"
    /\ op' = [name |-> "list"]
    /\ ret' = PyList([j \in DOMAIN deployed |-> deployed[j].key])
    /\ ReadOnly

\* __iter__, lines 42-43: the values of the OrderedDict, as the iteration
\* yields them
Iter ==
    /\ phase = "ready"
    /\ op' = [name |-> "__iter__"]
    /\ ret' = PyList([j \in DOMAIN deployed |-> ObjRef(deployed[j].obj)])
    /\ ReadOnly

\* __getitem__(i), lines 45-46: list(values)[i], Python indexing (a negative
\* i counts from the end, IndexError out of range)
GetItem(i) ==
    /\ phase = "ready"
    /\ op' = [name |-> "__getitem__", i |-> i]
    /\ ret' = IF 0 <= i /\ i < Len(deployed) THEN ObjRef(deployed[i + 1].obj)
              ELSE IF i < 0 /\ -i <= Len(deployed)
                   THEN ObjRef(deployed[Len(deployed) + i + 1].obj)
              ELSE [k |-> "err", exc |-> "IndexError", site |-> "__getitem__"]
    /\ ReadOnly

\* __len__, lines 48-49
LenOp ==
    /\ phase = "ready"
    /\ op' = [name |-> "__len__"]
    /\ ret' = PyInt(Len(deployed))
    /\ ReadOnly

\* the interfaces a deployer is built from
DeployerAbis == {<<Constructor(<<Param(<<"x">>, UINT8)>>), FnGet, FnSet, EvSet>>,
                 <<FnGet, FnSet>>,
                 <<FnSet, FnSetBytes>>}
\* the owner arguments given to at(), None being its default
Owners == {None, Acct("a1")}
\* the accounts that deploy
Deployers == {Acct("a1")}
\* the constructor arguments given to deploy()
DeployArgs == {<<>>, <<PyInt(42)>>, <<SHi>>}

Init ==
    /\ abi \in DeployerAbis
    /\ phase = "new"
    /\ signatures = None /\ topics = None
    /\ deployed = <<>> /\ objs = <<>> /\ nSent = 0 /\ lastSent = None
    /\ inst = None
    /\ fmtIn = <<>> /\ fmtTypes = <<>>
    /\ op = [name |-> "init"]
    /\ ret = None

Next ==
    \/ ContractDeployerInit
    \/ \E a \in Addresses, o \in Owners : At(a, o)
    \/ \E acct \in Deployers, args \in DeployArgs : Deploy(acct, args)
    \/ List
    \/ Iter
    \/ \E i \in -1 .. NumAddr : GetItem(i)
    \/ LenOp

Spec == Init /\ [][Next]_vars

----------------------------------------------------------------------------
(* ContractTx and ContractCall, lines 123-142 *)

\* a dict is [k |-> "dict", v |-> f], f a function from its keys
Dict(f) == [k |-> "dict", v |-> f]
HasKey(d, key) == key \in DOMAIN d.v
SetKey(d, key, x) ==
    Dict([n \in DOMAIN d.v \cup {key} |-> IF n = key THEN x ELSE d.v[n]])

\* a float is [k |-> "float", halves |-> h], the number h / 2
PyFloat(h) == [k |-> "float", halves |-> h]

\* int(x) of a float: the fraction is dropped, towards zero
IntOfFloat(x) == IF x.halves >= 0 THEN x.halves \div 2 ELSE -((-x.halves) \div 2)

\* line 126: args and type(args[-1]) is dict
HasOptions(args) == args # <<>> /\ args[Len(args)].k = "dict"

\* lines 126-133: the positional arguments and the tx dict of a call
Positional(args) == IF HasOptions(args) THEN SubSeq(args, 1, Len(args) - 1) ELSE args

\* the tx dict with 'from' always set to the owner
TxOptionsOwnerOnly(args, owner) ==
    IF HasOptions(args)
    THEN LET withFrom == SetKey(args[Len(args)], "from", owner)
         IN IF HasKey(withFrom, "value") /\ withFrom.v["value"].k = "float"
            THEN SetKey(withFrom, "value", PyInt(IntOfFloat(withFrom.v["value"])))
            ELSE withFrom
    ELSE Dict([n \in {"from"} |-> owner])

TxOptions(args, owner) ==
    IF HasOptions(args)
    THEN LET tx == args[Len(args)]
             withFrom == IF ~HasKey(tx, "from") THEN SetKey(tx, "from", owner) ELSE tx
         IN IF HasKey(withFrom, "value") /\ withFrom.v["value"].k = "float"
            THEN SetKey(withFrom, "value", PyInt(IntOfFloat(withFrom.v["value"])))
            ELSE withFrom
    ELSE Dict([n \in {"from"} |-> owner])

\* tx['from']._contract_tx of line 134 on an object that has no such
\* attribute (None)
NoContractTx == [k |-> "err", exc |-> "AttributeError", site |-> "_contract_tx"]

\* _ContractMethod._format_inputs, lines 119-121
MethodFormat(fnAbi, args) ==
    format_inputs(fnAbi.name, args,
                  [j \in DOMAIN fnAbi.inputs |-> fnAbi.inputs[j].type])

\* the names of the instance's bound methods of one class (lines 84-87)
MethodsOf(class) == {n \in DOMAIN inst.methods : inst.methods[n].class = class}

\* ContractTx.__call__(*args) of bound method n, lines 125-134. The callee
\* expression tx['from']._contract_tx is evaluated before its arguments.
TxCall(n, args) ==
    /\ nSent < MaxSent
    /\ op' = [name |-> "tx", method |-> n, args |-> args]
    /\ LET self == inst.methods[n]
           tx == TxOptions(args, self._owner)
           sender == tx.v["from"]
           formatted == MethodFormat(self.abi, Positional(args))
       IN IF sender.k # "account"
          THEN ret' = NoContractTx /\ UNCHANGED <<nSent, lastSent>>
          ELSE IF IsErr(formatted)
          THEN ret' = formatted /\ UNCHANGED <<nSent, lastSent>>
          ELSE \E result \in {TxFailed, Receipt(nSent + 1, None)} :
                  /\ nSent' = nSent + 1
                  /\ lastSent' = SentCall(sender, self.abi.name, formatted, tx, result)
                  /\ ret' = result
    /\ UNCHANGED <<abi, phase, signatures, topics, deployed, objs, inst,
                   fmtIn, fmtTypes>>

HexChars == <<"0", "1", "2", "3", "4", "5", "6", "7", "8", "9",
              "a", "b", "c", "d", "e", "f">>

\* web3.toHex(b) of a bytes value: "0x" and two hex digits per byte
RECURSIVE HexDigitsOf(_)
HexDigitsOf(b) ==
    IF b = <<>> THEN <<>>
    ELSE <<HexChars[(Head(b) \div 16) + 1], HexChars[(Head(b) % 16) + 1]>>
            \o HexDigitsOf(Tail(b))
toHex(x) == PyStr(<<"0", "x">> \o HexDigitsOf(x.v))

\* the result with the elements of a list left as they are
CallReturnTopOnly(result) == IF result.k = "bytes" THEN toHex(result) ELSE result

\* lines 140-142: what __call__ returns for the result of .call()
CallReturn(result) ==
    IF result.k # "list"
    THEN IF result.k = "bytes" THEN toHex(result) ELSE result
    ELSE PyList([j \in DOMAIN result.v |->
                    IF result.v[j].k = "bytes" THEN toHex(result.v[j]) ELSE result.v[j]])

\* ContractCall.__call__(*args) of bound method n, lines 138-142; result is
\* what the bound function's .call() answers
CallCall(n, args, result) ==
    /\ op' = [name |-> "call", method |-> n, args |-> args, result |-> result]
    /\ LET formatted == MethodFormat(inst.methods[n].abi, args)
       IN ret' = IF IsErr(formatted) THEN formatted ELSE CallReturn(result)
    /\ UNCHANGED <<abi, phase, signatures, topics, deployed, objs, nSent, lastSent,
                   inst, fmtIn, fmtTypes>>

\* the instance called, the arguments given and the results answered
InstanceAbi == <<FnGet, FnSet>>
TxDicts ==
    {Dict(<<>>)}
      \cup {Dict([n \in {"from"} |-> Acct("a2")])}
      \cup {Dict([n \in {"value"} |-> x]) : x \in {PyInt(5), PyFloat(3), PyFloat(-3)}}
      \cup {Dict([n \in {"from", "value"} |-> IF n = "from" THEN Acct("a2") ELSE x]) :
               x \in {PyInt(5), PyFloat(3), PyFloat(-3)}}
MethodPositional == {<<>>, <<PyInt(1)>>, <<S7>>, <<SHi>>}
TxArgs == MethodPositional \cup {p \o <<d>> : p \in MethodPositional, d \in TxDicts}
CallArgs == {<<>>, <<PyInt(1)>>}
CallResults ==
    {PyInt(5), SHi, BHi, PyBytes(<<>>), PyBytes(<<0, 171>>),
     PyList(<<>>), PyList(<<BHi, PyInt(1), SHex>>),
     PyList(<<PyList(<<BHi>>), PyBytes(<<1, 44>>)>>)}

InitMethods ==
    /\ inst \in {Contract([id |-> 1, form |-> "checksum"], ContractName, InstanceAbi, o) :
                    o \in {None, Acct("a1")}}
    /\ abi = <<>> /\ phase = "none"
    /\ signatures = None /\ topics = None
    /\ deployed = <<>> /\ objs = <<>> /\ nSent = 0 /\ lastSent = None
    /\ fmtIn = <<>> /\ fmtTypes = <<>>
    /\ op = [name |-> "init"]
    /\ ret = None

NextMethods ==
    \/ \E n \in MethodsOf("ContractTx"), args \in TxArgs : TxCall(n, args)
    \/ \E n \in MethodsOf("ContractCall"), args \in CallArgs, result \in CallResults :
          CallCall(n, args, result)

SpecMethods == InitMethods /\ [][NextMethods]_vars

----------------------------------------------------------------------------
(* Properties of the argument formatter, under SpecFormat *)

Formatted == op.name = "format"

\* the type list an ArgumentCountError message reports, read back from the
\* comma-separated text
TypesReported(text) == IF text = <<>> THEN <<>> ELSE Split(text, ",")

\* C6: format fails with the argument-count error (AttributeError, line 148)
\* exactly when the number of inputs differs from the number of types,
\* whatever the elements are (so before any of them is converted), and the
\* error names the function and reports the expected type list.
C6_ArgumentCount ==
    Formatted =>
        /\ (Len(fmtIn) # Len(fmtTypes)) <=> (IsErr(ret) /\ ret.exc = "AttributeError")
        /\ Len(fmtIn) # Len(fmtTypes) =>
              /\ ret.site = "count"
              /\ ret.name = FName
              /\ TypesReported(ret.expected) = fmtTypes

\* two inputs, the first of them not convertible, against the one type uint8
C6_Witness ==
    /\ Formatted
    /\ fmtIn = <<SHi, PyInt(1)>>
    /\ fmtTypes = <<UINT8>>
    /\ IsErr(ret) /\ ret.site = "count"

\* x formatted alone as type t
AsType(x, t) == format_inputs(FName, <<x>>, <<t>>)

\* every position but p formats without error when taken alone
OthersFormat(p) ==
    \A q \in DOMAIN fmtTypes \ {p} : ~IsErr(AsType(fmtIn[q], fmtTypes[q]))

\* T[] and T[N] read as the claim reads them: T is what precedes the last
\* "[", N what stands between it and the closing "]"
IsArrayType(t) == t # <<>> /\ t[Len(t)] = "]"
LastOpen(t) == CHOOSE j \in DOMAIN t : t[j] = "[" /\ \A m \in (j + 1) .. Len(t) : t[m] # "["
ElemTypeOf(t) == SubSeq(t, 1, LastOpen(t) - 1)
DeclaredLen(t) == SubSeq(t, LastOpen(t) + 1, Len(t) - 1)

ArrayFormattedAt(p) ==
    LET x == fmtIn[p]
        T == ElemTypeOf(fmtTypes[p])
        N == DeclaredLen(fmtTypes[p])
    IN IF N # <<>> /\ Len(x.v) # IntOf(PyStr(N)).v
       THEN IsErr(ret) /\ ret.exc = "ValueError" /\ ret.site = "length"
       ELSE (\A j \in DOMAIN x.v : ~IsErr(AsType(x.v[j], T))) =>
               /\ ~IsErr(ret)
               /\ ret.v[p].k = "list"
               /\ Len(ret.v[p].v) = Len(x.v)
               /\ \A j \in DOMAIN x.v : ret.v[p].v[j] = AsType(x.v[j], T).v[1]

\* C7: for an argument of array type T[] or T[N], T itself possibly an array
\* type: a list whose length differs from a given N makes format fail with
\* the length error; otherwise the result at that position is the list of
\* the elements, each formatted as T, in order.
C7_ArrayFormatting ==
    (Formatted /\ Len(fmtIn) = Len(fmtTypes)) =>
        \A p \in DOMAIN fmtTypes :
            (IsArrayType(fmtTypes[p]) /\ fmtIn[p].k = "list" /\ OthersFormat(p))
                => ArrayFormattedAt(p)

\* the same for the array types whose element type is a scalar type
C7_OneLevelArrays ==
    (Formatted /\ Len(fmtIn) = Len(fmtTypes)) =>
        \A p \in DOMAIN fmtTypes :
            (/\ IsArrayType(fmtTypes[p])
             /\ ~IsArrayType(ElemTypeOf(fmtTypes[p]))
             /\ fmtIn[p].k = "list"
             /\ OthersFormat(p))
                => ArrayFormattedAt(p)

\* the numeric suffix of a bytes type name, -1 when it has none
SuffixOf(t) == IF t = BYTES1 THEN 1 ELSE IF t = BYTES2 THEN 2 ELSE -1

\* the number a byte sequence spells, most significant byte first
RECURSIVE BigEndianValue(_)
BigEndianValue(b) ==
    IF b = <<>> THEN 0
    ELSE 256 * BigEndianValue(SubSeq(b, 1, Len(b) - 1)) + b[Len(b)]

HexPrefixed(s) == Len(s) >= 2 /\ s[1] = "0" /\ s[2] = "x"

BytesCoercedAt(p) ==
    LET x == fmtIn[p]
        n == SuffixOf(fmtTypes[p])
    IN CASE x.k = "bytes" -> ~IsErr(ret) /\ ret.v[p] = x
         [] x.k = "str" ->
               /\ ~IsErr(ret)
               /\ IF HexPrefixed(x.v) THEN ret.v[p] = x
                  ELSE /\ ret.v[p].k = "bytes"
                       /\ Len(ret.v[p].v) = Len(x.v)
                       /\ \A j \in DOMAIN x.v : ret.v[p].v[j] = Ord(x.v[j])
         [] x.k = "int" ->
               IF n >= 0 /\ 0 <= x.v /\ x.v < Pow(256, n)
               THEN /\ ~IsErr(ret)
                    /\ ret.v[p].k = "bytes"
                    /\ Len(ret.v[p].v) = n
                    /\ \A j \in DOMAIN ret.v[p].v : ret.v[p].v[j] \in 0 .. 255
                    /\ BigEndianValue(ret.v[p].v) = x.v
               ELSE IsErr(ret) /\ ret.site = "convert"
         [] OTHER -> IsErr(ret) /\ ret.site = "convert"

\* C8: for a scalar bytes-type argument: raw bytes are returned unchanged; a
\* string starting with "0x" is returned unchanged; any other string is
\* returned as the bytes of its text; an integer is returned as the
\* big-endian byte sequence whose length is the numeric suffix of the type
\* name (a value that does not fit that length, a type name without a
\* suffix, or a value that is no integer raises the conversion error).
C8_BytesCoercion ==
    (Formatted /\ Len(fmtIn) = Len(fmtTypes)) =>
        \A p \in DOMAIN fmtTypes :
            (fmtTypes[p] \in {BYTES1, BYTES2, BYTES} /\ OthersFormat(p))
                => BytesCoercedAt(p)

\* 300 formatted as bytes2 is the two bytes 0x01 0x2c
C8_Witness ==
    /\ Formatted
    /\ fmtIn = <<PyInt(300), SHi>>
    /\ fmtTypes = <<BYTES2, BYTES2>>
    /\ ret = PyList(<<PyBytes(<<1, 44>>), BHi>>)

----------------------------------------------------------------------------
(* Properties of the ABI index, under SpecIndex *)

DistinctFunctionNames(entries) ==
    \A i, j \in DOMAIN entries :
        (i # j /\ entries[i].type = "function" /\ entries[j].type = "function")
            => entries[i].name # entries[j].name

NamesOfType(entries, type) ==
    {entries[j].name : j \in {m \in DOMAIN entries : entries[m].type = type}}

\* C4: the index is built for every ABI whose function entries have distinct
\* names (an event or a constructor sharing a name with a function is no
\* duplicate), giving a selector per function and a topic per event; for an
\* ABI with two function entries of one name the construction fails with the
\* ambiguity error (ValueError, line 15) and no signature or topic map
\* exists.
C4_IndexConstruction ==
    phase \in {"ready", "failed"} =>
        /\ DistinctFunctionNames(abi) <=> phase = "ready"
        /\ phase = "ready" =>
              /\ signatures.k = "dict" /\ topics.k = "dict"
              /\ DOMAIN signatures.v = NamesOfType(abi, "function")
              /\ DOMAIN topics.v = NamesOfType(abi, "event")
        /\ phase = "failed" =>
              /\ IsErr(ret) /\ ret.exc = "ValueError" /\ ret.site = "ambiguous"
              /\ signatures = None /\ topics = None

\* two functions named s, with an event of that name between them
C4_Witness ==
    /\ abi = <<FnSet, EvSet, FnSetBytes>>
    /\ phase = "failed"
    /\ ret.duplicates = {<<"s">>}

----------------------------------------------------------------------------
(* Properties of the deployer's registry, under Spec *)

RegisteredIds == {deployed[j].key.id : j \in DOMAIN deployed}
EntryOf(id) == deployed[CHOOSE j \in DOMAIN deployed : deployed[j].key.id = id]
IsPrefix(s, t) == Len(s) <= Len(t) /\ SubSeq(t, 1, Len(s)) = s

\* what at(address, owner) would return
LaterAt(address, owner) == at(address, owner).ret

C1_Step ==
    /\ (op'.name = "at" /\ op'.address.id \in RegisteredIds) =>
          /\ ret' = ObjRef(EntryOf(op'.address.id).obj)
          /\ deployed' = deployed
          /\ objs' = objs
    /\ \A i \in DOMAIN objs :
          /\ i \in DOMAIN objs'
          /\ objs'[i].owner = objs[i].owner
          /\ objs'[i].address = objs[i].address
    /\ \A i, j \in DOMAIN deployed' :
          i # j => deployed'[i].key.id # deployed'[j].key.id
    /\ \A i, j \in DOMAIN objs' : i # j => objs'[i].address.id # objs'[j].address.id
    /\ \A j \in DOMAIN deployed' :
          /\ deployed'[j].key.form = "checksum"
          /\ objs'[deployed'[j].obj].address = deployed'[j].key

\* C1: through any sequence of deploy and at operations the deployer holds at
\* most one Contract instance per address; at() on a registered address, in
\* any letter-casing and with any owner argument, returns the instance first
\* registered, adds no registry entry and creates no object, and no
\* operation changes the owner an instance was first bound to.
C1_OneInstancePerAddress == [][C1_Step]_vars

\* at() with a lower-case address and no owner returns the instance that a
\* deploy by account a1 registered
C1_Witness ==
    /\ op.name = "at"
    /\ op.address.form = "lower"
    /\ op.owner = None
    /\ objs[ret.id].owner = Acct("a1")
    /\ objs[ret.id].tx # None
    /\ Len(deployed) = 1

C2_Step ==
    (op'.name = "deploy" /\ ~IsErr(ret')) =>
        LET tx == lastSent'.result
            key == [id |-> tx.contractAddress.id, form |-> "checksum"]
        IN /\ nSent' = nSent + 1
           /\ tx.k = "receipt"
           /\ lastSent'.account = op'.account
           /\ lastSent'.fn = CtorFn
           /\ tx.contractAddress.id \notin RegisteredIds =>
                 /\ deployed' = Append(deployed, [key |-> key, obj |-> ret'.id])
                 /\ ret'.id \notin DOMAIN objs
                 /\ DOMAIN objs' = DOMAIN objs \cup {ret'.id}
                 /\ objs'[ret'.id].address = key
                 /\ objs'[ret'.id].owner = op'.account
                 /\ objs'[ret'.id].tx = tx
                 /\ \A a \in Addresses, o \in Owners :
                       a.id = key.id => LaterAt(a, o)' = ret'.id

\* C2: a successful deploy whose receipt address was not yet registered adds
\* exactly one registry entry, keyed by the checksummed form of the receipt's
\* contract address; the returned instance is that entry, a new object with
\* the deploying account as owner and the receipt as tx, and at() with that
\* address returns it afterwards.
C2_DeployRegisters == [][C2_Step]_vars

\* deploy(a1, 42) of a contract with constructor (uint8), the receipt giving
\* the address in lower case
C2_Witness ==
    /\ op.name = "deploy"
    /\ op.args = <<PyInt(42)>>
    /\ ~IsErr(ret)
    /\ Len(deployed) = 1
    /\ lastSent.result.contractAddress.form = "lower"
    /\ lastSent.args = PyList(<<PyInt(42)>>)
    /\ objs[ret.id].tx = lastSent.result

\* C3: deploy on an ABI that has no constructor entry, with no constructor
\* arguments, does not fail while locating the constructor: it reaches the
\* transaction submission.
C3_NoConstructorTolerated ==
    (op.name = "deploy" /\ ~HasConstructor(abi) /\ op.args = <<>>) =>
        /\ ~(IsErr(ret) /\ ret.exc = "StopIteration")
        /\ lastSent # None /\ lastSent.fn = CtorFn

ReadOps == {"list", "__iter__", "__getitem__", "__len__"}

C10_Step ==
    /\ IsPrefix(deployed, deployed')
    /\ op'.name \in ReadOps =>
          /\ deployed' = deployed /\ objs' = objs
          /\ nSent' = nSent /\ lastSent' = lastSent
    /\ op'.name = "list" =>
          /\ ret'.k = "list"
          /\ Len(ret'.v) = Len(deployed)
          /\ \A j \in DOMAIN deployed :
                ret'.v[j] = [id |-> deployed[j].key.id, form |-> "checksum"]
    /\ op'.name = "__iter__" =>
          /\ ret'.k = "list"
          /\ Len(ret'.v) = Len(deployed)
          /\ \A j \in DOMAIN deployed :
                /\ ret'.v[j] = ObjRef(deployed[j].obj)
                /\ objs[ret'.v[j].id].address.id = deployed[j].key.id
    /\ (op'.name = "__getitem__" /\ op'.i \in 0 .. (Len(deployed) - 1)) =>
          ret' = ObjRef(deployed[op'.i + 1].obj)
    /\ op'.name = "__len__" => ret' = PyInt(Cardinality(RegisteredIds))

\* C10: the registry only grows at its end (a repeated at() leaves the order
\* as it is), so its order is the order of first registration; list() gives
\* the checksummed addresses in that order, iteration and indexing give the
\* instances in that order, len the number of distinct registered addresses,
\* and none of the four changes the registry.
C10_EnumerationViews == [][C10_Step]_vars

\* address 2 registered before address 1, and listed in that order
C10_Witness ==
    /\ op.name = "list"
    /\ ret = PyList(<<[id |-> 2, form |-> "checksum"], [id |-> 1, form |-> "checksum"]>>)
    /\ Len(deployed) = 2

----------------------------------------------------------------------------
(* Properties of the bound methods, under SpecMethods *)

TrailingDict(args) == args # <<>> /\ args[Len(args)].k = "dict"
GivenOptions(args) == IF TrailingDict(args) THEN args[Len(args)].v ELSE <<>>
GivenPositional(args) ==
    IF TrailingDict(args) THEN [j \in 1 .. (Len(args) - 1) |-> args[j]] ELSE args

\* the sender the claim names: the 'from' of the options when given, the
\* bound owner otherwise
ExpectedSender(args) ==
    IF "from" \in DOMAIN GivenOptions(args) THEN GivenOptions(args)["from"]
    ELSE inst.owner

\* r is the float x with its fraction dropped
Truncates(x, r) ==
    /\ r.k = "int"
    /\ IF x.halves >= 0 THEN 2 * r.v <= x.halves /\ x.halves < 2 * r.v + 2
       ELSE 2 * r.v - 2 < x.halves /\ x.halves <= 2 * r.v

ExpectedOptions(tx, args) ==
    LET given == GivenOptions(args)
    IN /\ tx.k = "dict"
       /\ DOMAIN tx.v = DOMAIN given \cup {"from"}
       /\ tx.v["from"] = ExpectedSender(args)
       /\ \A key \in DOMAIN given \ {"from"} :
             IF given[key].k = "float" THEN Truncates(given[key], tx.v[key])
             ELSE tx.v[key] = given[key]

PositionalFormatted(n, args) == MethodFormat(inst.methods[n].abi, GivenPositional(args))

\* this step handed the call to the expected sender's _contract_tx
Delegated ==
    /\ nSent' = nSent + 1
    /\ lastSent'.account = ExpectedSender(op'.args)
    /\ lastSent'.fn = op'.method
    /\ lastSent'.args = PositionalFormatted(op'.method, op'.args)
    /\ ExpectedOptions(lastSent'.tx, op'.args)
    /\ ret' = lastSent'.result

NothingSent == nSent' = nSent /\ lastSent' = lastSent

\* C5 as claimed: every Transaction invocation whose positional arguments
\* format resolves a sender (the 'from' of the options, else the bound owner)
\* and passes the formatted arguments and the options to that sender's
\* _contract_tx.
C5_AlwaysDelegates ==
    [][(op'.name = "tx" /\ ~IsErr(PositionalFormatted(op'.method, op'.args)))
          => Delegated]_vars

C5_Step ==
    op'.name = "tx" =>
        IF ExpectedSender(op'.args) = None
        THEN ret' = NoContractTx /\ NothingSent
        ELSE IF IsErr(PositionalFormatted(op'.method, op'.args))
        THEN ret' = PositionalFormatted(op'.method, op'.args) /\ NothingSent
        ELSE Delegated

\* C5 as amended: the sender is the 'from' of the trailing options map when
\* it has one and the bound owner otherwise; when that sender is None the
\* invocation fails with AttributeError and nothing is submitted; otherwise
\* the positional arguments (the trailing map removed) are formatted and
\* passed, with the options (a float 'value' truncated to an integer), to the
\* sender's _contract_tx.
C5_SenderResolution == [][C5_Step]_vars

\* value -1.5 is passed on as -1, the owner a1 being the sender
C5_Witness ==
    /\ op.name = "tx"
    /\ op.args = <<PyInt(1), Dict([n \in {"value"} |-> PyFloat(-3)])>>
    /\ nSent = 1
    /\ lastSent.account = Acct("a1")
    /\ lastSent.tx.v["value"] = PyInt(-1)
    /\ lastSent.args = PyList(<<PyInt(1)>>)
    /\ ret = lastSent.result

HexValue(c) == CHOOSE n \in 0 .. 15 : HexChars[n + 1] = c

\* s is the hex string of the bytes b
IsHexOf(s, b) ==
    /\ s.k = "str"
    /\ Len(s.v) = 2 + 2 * Len(b.v)
    /\ s.v[1] = "0" /\ s.v[2] = "x"
    /\ \A j \in DOMAIN b.v :
          16 * HexValue(s.v[2 * j + 1]) + HexValue(s.v[2 * j + 2]) = b.v[j]

C9_Step ==
    op'.name = "call" =>
        /\ NothingSent
        /\ ~IsErr(ret') =>
              LET r == op'.result
              IN CASE r.k = "bytes" -> IsHexOf(ret', r)
                   [] r.k = "list" ->
                         /\ ret'.k = "list"
                         /\ Len(ret'.v) = Len(r.v)
                         /\ \A j \in DOMAIN r.v :
                               IF r.v[j].k = "bytes" THEN IsHexOf(ret'.v[j], r.v[j])
                               ELSE ret'.v[j] = r.v[j]
                   [] OTHER -> ret' = r

\* C9: a Call invocation returns a bytes result as its hex string, a list
\* result with each bytes element replaced by its hex string and the other
\* elements kept in order, and any other result unchanged; it needs no
\* sender and passes nothing to an account's _contract_tx.
C9_CallNormalizes == [][C9_Step]_vars

\* a call on an instance without owner, after one transaction was sent
C9_Witness ==
    /\ op.name = "call"
    /\ inst.owner = None
    /\ nSent = 1
    /\ op.result = PyList(<<BHi, PyInt(1), SHex>>)
    /\ ret = PyList(<<PyStr(<<"0", "x", "6", "8", "6", "9">>), PyInt(1), SHex>>)

====
